---- MODULE Spec2Model ----
(***************************************************************************)
(* State-machine model of the rent and light-bill manager (src/app.py).    *)
(*                                                                         *)
(* Representation choices                                                  *)
(*   - a form field is a sequence: <<>> for a missing or empty field,      *)
(*     <<n>> for a field holding the number n; a text field is a sequence *)
(*     of one-character strings, so that str.strip() can be computed;     *)
(*   - money is counted in hundredths of a rupee (paise), rate_per_unit   *)
(*     in sixteenths of a rupee per unit: such rates and their products   *)
(*     are exact binary floats, so Python's round(x, 2) is                 *)
(*     round-half-to-even of the exact value; a REAL column is taken to    *)
(*     hold the amount written to it;                                      *)
(*   - created_at timestamps are not modelled.                             *)
(***************************************************************************)
EXTENDS Integers, Sequences, FiniteSets, TLC

\* ------------------------------------------------------------------ bounds
MaxTenants == 1      \* tenants created in one behaviour of Spec
ConcTenants == 2     \* tenants in the store of SpecConc
MaxBills   == 2
MaxOps     == 3      \* requests handled in one behaviour of Spec
MaxRequests == 2     \* new_reading requests, each on its own connection, in SpecConc

\* ------------------------------------------------------ form input domains
\* a name of spaces only and a name with a space to strip; a missing, a
\* negative and a positive rent; a missing rate (8.0) and 0.0625 per unit
NameInputs    == {<<" ">>, <<" ", "a">>}
RoomInputs    == {<<"1">>}
RentInputs    == {<<>>, <<-1>>, <<2>>}
RateInputs    == {<<>>, <<1>>}
ReadingInputs == {<<1>>, <<3>>}
Periods       == {<<12, 2024>>, <<1, 2025>>, <<2, 2025>>}
ConcPeriods   == {<<1, 2025>>}
MonthFilters  == {<<>>, <<1>>}
YearFilters   == {<<>>, <<2025>>}
\* one username; the password of the admin and a password of spaces only
UserInputs    == {<<"u">>}
PassInputs    == {<<"p">>, <<" ">>}

\* ------------------------------------------------------- program constants
DefaultRate == 128     \* 8.0 rupees per unit, in sixteenths
RateDenom   == 16      \* rate_per_unit is counted in sixteenths of a rupee
Paise       == 100     \* round(x, 2): two decimal places

VARIABLES tenants,   \* table tenants: sequence of rows, row i has id i
          bills,     \* table bills: set of committed rows
          bill_seq,  \* last id handed out for table bills
          reqs,      \* in-flight new_reading requests (open transactions)
          flash,     \* the message flashed by the last handler
          ops,       \* number of requests handled so far
          backend,   \* "sqlite" or "postgres" (using_postgres())
          session,   \* the session cookie of the client: user_id, username
          users,     \* table users: set of rows
          last       \* the last request: its endpoint and what answered it

vars == <<tenants, bills, bill_seq, reqs, flash, ops, backend, session, users, last>>

\* ------------------------------------------------------------ form parsing
RECURSIVE LStrip(_)
LStrip(s) == IF s # <<>> /\ Head(s) = " " THEN LStrip(Tail(s)) ELSE s

RECURSIVE RStrip(_)
RStrip(s) == IF s # <<>> /\ s[Len(s)] = " " THEN RStrip(SubSeq(s, 1, Len(s) - 1)) ELSE s

\* variant: the field is taken as typed
StripNone(s) == s

\* str.strip()
Strip(s) == RStrip(LStrip(s))

\* int(request.form.get(k, 0) or 0)
FormInt(f) == IF f = <<>> THEN 0 ELSE f[1]

\* float(request.form.get("rate_per_unit", 8.0) or 8.0), in sixteenths
FormRate(f) == IF f = <<>> THEN DefaultRate ELSE f[1]

\* round-half-to-even of n/d, d > 0
RoundHalfEven(n, d) ==
    LET q == n \div d
        r == n % d
    IN  IF 2 * r < d THEN q
        ELSE IF 2 * r > d THEN q + 1
        ELSE IF q % 2 = 0 THEN q ELSE q + 1

TenantIds == 1..Len(tenants)
BillIds   == {b.id : b \in bills}
BillOf(id) == CHOOSE b \in bills : b.id = id

\* a request slot with no request in it
IdleReq == [pc |-> "idle", tenant_id |-> 0, end_reading |-> 0, month |-> 0, year |-> 0,
            start_reading |-> 0, units |-> 0, light_bill |-> 0, total |-> 0, bill_id |-> 0]

\* a request slot whose request has been answered
DoneReq == [IdleReq EXCEPT !.pc = "done"]

ReqIds == 1..MaxRequests

\* -------------------------------------------------------- bill computation
\* light_bill = round(units * float(rate_per_unit), 2), in paise
LightBill(units, rate_per_unit) == RoundHalfEven(units * rate_per_unit * Paise, RateDenom)

\* variant: the rent is added in rupees to a charge in paise
TotalUnscaled(monthly_rent, light_bill) == monthly_rent + light_bill

\* total = float(monthly_rent) + light_bill, in paise
Total(monthly_rent, light_bill) == monthly_rent * Paise + light_bill

\* the row the INSERT INTO bills of new_reading writes
BillRow(id, tenant_id, month, year, start_reading, end_reading, units, light_bill, total) ==
    [id |-> id, tenant_id |-> tenant_id, month |-> month, year |-> year,
     start_reading |-> start_reading, end_reading |-> end_reading, units |-> units,
     light_bill |-> light_bill, total |-> total, paid |-> 0]

\* variant: no end_reading is rejected
InvalidReadingNever(end_reading, start_reading) == FALSE

\* variant: the reading is compared with zero, not with the cursor
InvalidReadingZero(end_reading, start_reading) == end_reading < 0

\* if end_reading < start_reading: rejected
InvalidReading(end_reading, start_reading) == end_reading < start_reading

\* variant: the cursor is not advanced
SetLastReadingNone(tbl, tenant_id, end_reading) == tbl

\* UPDATE tenants SET last_reading=? WHERE id=?
SetLastReading(tbl, tenant_id, end_reading) ==
    [tbl EXCEPT ![tenant_id].last_reading = end_reading]

\* werkzeug generate_password_hash / check_password_hash: the stored hash
\* is not the password, and a password checks against its own hash only
GeneratePasswordHash(password) == <<"#">> \o password

CheckPasswordHash(password_hash, password) ==
    password_hash = GeneratePasswordHash(password)

\* session.clear(): no user_id in the session
NoSession == [user_id |-> 0, username |-> <<>>]

\* the row auth_init stores for username "u", password "p"
AdminUser == [id |-> 1, username |-> <<"u">>,
              password_hash |-> GeneratePasswordHash(<<"p">>)]

\* ---------------------------------------------------------------- Init
\* a tenant row that new_tenant accepts
StoredTenant ==
    [name |-> <<"a">>, room |-> <<"1">>, monthly_rent |-> 2,
     rate_per_unit |-> 1, last_reading |-> 0]

\* init_db creates the tables only if they do not exist: the application
\* starts on a new database or on one that already holds a tenant
Init ==
    /\ tenants \in {<<>>, <<StoredTenant>>}
    /\ bills = {}
    /\ bill_seq = 0
    /\ reqs = [r \in ReqIds |-> IdleReq]
    /\ flash = "none"
    /\ ops = 0
    /\ backend = "sqlite"
    /\ session = [user_id |-> AdminUser.id, username |-> AdminUser.username]
    /\ users = {AdminUser}
    /\ last = [endpoint |-> "none", by |-> "none"]

\* one more request is handled
Handle == ops < MaxOps /\ ops' = ops + 1

\* ------------------------------------------------------------ new_tenant
NewTenant(nameF, roomF, rentF, rateF, readingF) ==
    LET name == Strip(nameF)
        room == Strip(roomF)
        monthly_rent == FormInt(rentF)
        rate_per_unit == FormRate(rateF)
        last_reading == FormInt(readingF)
    IN  /\ Handle
        /\ IF name = <<>> \/ monthly_rent <= 0
           THEN /\ flash' = "Name and monthly rent are required."
                /\ UNCHANGED tenants
           ELSE /\ Len(tenants) < MaxTenants
                /\ tenants' = Append(tenants,
                      [name |-> name, room |-> room, monthly_rent |-> monthly_rent,
                       rate_per_unit |-> rate_per_unit, last_reading |-> last_reading])
                /\ flash' = "Tenant added."
        /\ UNCHANGED <<bills, bill_seq, reqs, backend, session, users>>

\* ----------------------------------------------------------- edit_tenant
EditTenant(tenant_id, nameF, roomF, rentF, rateF, readingF) ==
    /\ Handle
    /\ IF tenant_id \notin TenantIds
       THEN /\ flash' = "Tenant not found"
            /\ UNCHANGED tenants
       ELSE /\ tenants' = [tenants EXCEPT ![tenant_id] =
                  [name |-> Strip(nameF), room |-> Strip(roomF),
                   monthly_rent |-> FormInt(rentF), rate_per_unit |-> FormRate(rateF),
                   last_reading |-> FormInt(readingF)]]
            /\ flash' = "Tenant updated."
    /\ UNCHANGED <<bills, bill_seq, reqs, backend, session, users>>

\* ----------------------------------------------------------- new_reading
\* the whole POST handler, run with no other request in flight
NewReading(tenant_id, endF, month, year) ==
    LET end_reading == FormInt(endF) IN
    /\ Handle
    /\ IF tenant_id \notin TenantIds
       THEN /\ flash' = "Tenant not found"
            /\ UNCHANGED <<tenants, bills, bill_seq>>
       ELSE LET tenant == tenants[tenant_id]
                start_reading == tenant.last_reading
                units == end_reading - start_reading
                light_bill == LightBill(units, tenant.rate_per_unit)
                total == Total(tenant.monthly_rent, light_bill)
            IN  IF InvalidReading(end_reading, start_reading)
                THEN /\ flash' = "End reading cannot be less than last reading."
                     /\ UNCHANGED <<tenants, bills, bill_seq>>
                ELSE /\ Cardinality(bills) < MaxBills
                     /\ bills' = bills \cup {BillRow(bill_seq + 1, tenant_id, month, year,
                                     start_reading, end_reading, units, light_bill, total)}
                     /\ bill_seq' = bill_seq + 1
                     /\ tenants' = SetLastReading(tenants, tenant_id, end_reading)
                     /\ flash' = "Bill created"
    /\ UNCHANGED <<reqs, backend, session, users>>

\* ------------------------------------------------------------- mark_paid
\* variant: the statement keeps only the row it updated
SetPaidOnly(tbl, bill_id) ==
    {[b EXCEPT !.paid = 1] : b \in {x \in tbl : x.id = bill_id}}

\* variant: UPDATE bills SET paid=1, no WHERE
SetPaidAll(tbl, bill_id) == {[b EXCEPT !.paid = 1] : b \in tbl}

\* variant: the flag is flipped
SetPaidToggle(tbl, bill_id) ==
    {IF b.id = bill_id THEN [b EXCEPT !.paid = 1 - b.paid] ELSE b : b \in tbl}

\* UPDATE bills SET paid=1 WHERE id=?
SetPaid(tbl, bill_id) ==
    {IF b.id = bill_id THEN [b EXCEPT !.paid = 1] ELSE b : b \in tbl}

MarkPaid(bill_id) ==
    /\ Handle
    /\ bills' = SetPaid(bills, bill_id)
    /\ flash' = "Marked as paid."
    /\ UNCHANGED <<tenants, bill_seq, reqs, backend, session, users>>

\* ------------------------------------------------- listing and reports
\* WHERE month=? AND year=?, each part present only when the filter is given
Matches(b, monthF, yearF) ==
    /\ monthF # <<>> => b.month = monthF[1]
    /\ yearF # <<>> => b.year = yearF[1]

\* FROM bills b JOIN tenants t ON t.id=b.tenant_id WHERE ...
\* (the joined display columns t.name and t.room are not carried)
JoinRows(monthF, yearF) ==
    {b \in bills : b.tenant_id \in TenantIds /\ Matches(b, monthF, yearF)}

\* variant: ORDER BY year DESC, month DESC
BillsOrderNoId(a, b) ==
    \/ a.year > b.year
    \/ a.year = b.year /\ a.month >= b.month

\* ORDER BY year DESC, month DESC, id DESC: a may stand before b
BillsOrder(a, b) ==
    \/ a.year > b.year
    \/ a.year = b.year /\ a.month > b.month
    \/ a.year = b.year /\ a.month = b.month /\ a.id >= b.id

\* the rows in every order: what a SELECT without ORDER BY may return
Arrangements(rows) ==
    {s \in [1..Cardinality(rows) -> rows] :
        \A i, j \in 1..Cardinality(rows) : i # j => s[i] # s[j]}

\* every sequence the database may return for bills_list: the rows under
\* the ORDER BY, rows that tie in any order
BillsList(monthF, yearF) ==
    {s \in Arrangements(JoinRows(monthF, yearF)) :
        \A i, j \in 1..Len(s) : i < j => BillsOrder(s[i], s[j])}

\* the same for the rows of reports
ReportRows(monthF, yearF) ==
    {s \in Arrangements(JoinRows(monthF, yearF)) :
        \A i, j \in 1..Len(s) : i < j => BillsOrder(s[i], s[j])}

\* the same for the rows of export_csv
ExportRows(monthF, yearF) ==
    {s \in Arrangements(JoinRows(monthF, yearF)) :
        \A i, j \in 1..Len(s) : i < j => BillsOrder(s[i], s[j])}

\* ------------------------------------------------------------- dashboard
\* ORDER BY year DESC, month DESC of the unpaid query: a may stand before b
DashboardOrder(a, b) ==
    \/ a.year > b.year
    \/ a.year = b.year /\ a.month >= b.month

\* bills b JOIN tenants t ON t.id=b.tenant_id WHERE paid=0
UnpaidRows == {b \in bills : b.tenant_id \in TenantIds /\ b.paid = 0}

\* every row sequence the unpaid query of the dashboard may return
DashboardUnpaid ==
    {s \in Arrangements(UnpaidRows) :
        \A i, j \in 1..Len(s) : i < j => DashboardOrder(s[i], s[j])}

RECURSIVE SumField(_, _)
SumField(rows, field) ==
    IF rows = {} THEN 0
    ELSE LET b == CHOOSE x \in rows : TRUE
         IN  b[field] + SumField(rows \ {b}, field)

RECURSIVE SumRent(_)
SumRent(rows) ==
    IF rows = {} THEN 0
    ELSE LET b == CHOOSE x \in rows : TRUE
         IN  tenants[b.tenant_id].monthly_rent * Paise + SumRent(rows \ {b})

\* the aggregates of reports
Report(monthF, yearF) ==
    LET rows == JoinRows(monthF, yearF)
        grand_total == SumField(rows, "total")
        received == SumField({r \in rows : r.paid # 0}, "total")
    IN  [total_units |-> SumField(rows, "units"),
         total_light |-> SumField(rows, "light_bill"),
         total_rent  |-> SumRent(rows),
         grand_total |-> grand_total,
         received    |-> received,
         outstanding |-> grand_total - received]

\* ------------------------------------------- new_reading, step by step
\* The POST handler of new_reading as the statements it sends to the
\* database, so that several requests can be in flight.  Each request has
\* its own connection (get_db); its INSERT and UPDATE stay invisible to the
\* other connections until its commit.

\* sqlite: the connection that has written holds the database's write lock
\* until it commits or rolls back
HoldsWriteLock(r) == reqs[r].pc \in {"inserted", "updated"}

\* postgres: the connection that has updated a tenants row holds its row
\* lock until it commits or rolls back
HoldsRowLock(r, tenant_id) == reqs[r].pc = "updated" /\ reqs[r].tenant_id = tenant_id

\* SELECT the tenant, validate, compute (reads committed data only)
ReqStart(r, tenant_id, endF, month, year) ==
    LET end_reading == FormInt(endF) IN
    /\ reqs[r].pc = "idle"
    /\ IF tenant_id \notin TenantIds
       THEN /\ flash' = "Tenant not found"
            /\ reqs' = [reqs EXCEPT ![r] = DoneReq]
       ELSE LET tenant == tenants[tenant_id]
                start_reading == tenant.last_reading
                units == end_reading - start_reading
                light_bill == LightBill(units, tenant.rate_per_unit)
                total == Total(tenant.monthly_rent, light_bill)
            IN  IF InvalidReading(end_reading, start_reading)
                THEN /\ flash' = "End reading cannot be less than last reading."
                     /\ reqs' = [reqs EXCEPT ![r] = DoneReq]
                ELSE /\ reqs' = [reqs EXCEPT ![r] =
                            [pc |-> "computed", tenant_id |-> tenant_id,
                             end_reading |-> end_reading, month |-> month, year |-> year,
                             start_reading |-> start_reading, units |-> units,
                             light_bill |-> light_bill, total |-> total, bill_id |-> 0]]
                     /\ UNCHANGED flash
    /\ UNCHANGED <<tenants, bills, bill_seq, ops, backend, session, users, last>>

\* variant: the INSERT is committed on its own
ReqInsertAutocommit(r) ==
    LET q == reqs[r] IN
    /\ q.pc = "computed"
    /\ bill_seq < MaxBills
    /\ backend = "sqlite" => \A o \in ReqIds : ~HoldsWriteLock(o)
    /\ bill_seq' = bill_seq + 1
    /\ bills' = bills \cup {BillRow(bill_seq + 1, q.tenant_id, q.month, q.year, q.start_reading,
                                    q.end_reading, q.units, q.light_bill, q.total)}
    /\ reqs' = [reqs EXCEPT ![r].pc = "inserted", ![r].bill_id = bill_seq + 1]
    /\ UNCHANGED <<tenants, flash, ops, backend, session, users, last>>

\* INSERT INTO bills: opens the transaction, takes the next id
ReqInsert(r) ==
    /\ reqs[r].pc = "computed"
    /\ bill_seq < MaxBills
    /\ backend = "sqlite" => \A o \in ReqIds : ~HoldsWriteLock(o)
    /\ bill_seq' = bill_seq + 1
    /\ reqs' = [reqs EXCEPT ![r].pc = "inserted", ![r].bill_id = bill_seq + 1]
    /\ UNCHANGED <<tenants, bills, flash, ops, backend, session, users, last>>

\* UPDATE tenants SET last_reading: in the same transaction
ReqUpdate(r) ==
    /\ reqs[r].pc = "inserted"
    /\ backend = "postgres" => \A o \in ReqIds : ~HoldsRowLock(o, reqs[r].tenant_id)
    /\ reqs' = [reqs EXCEPT ![r].pc = "updated"]
    /\ UNCHANGED <<tenants, bills, bill_seq, flash, ops, backend, session, users, last>>

\* db.commit(): the inserted bill and the updated cursor become visible
ReqCommit(r) ==
    LET q == reqs[r] IN
    /\ q.pc = "updated"
    /\ bills' = bills \cup {BillRow(q.bill_id, q.tenant_id, q.month, q.year, q.start_reading,
                                    q.end_reading, q.units, q.light_bill, q.total)}
    /\ tenants' = SetLastReading(tenants, q.tenant_id, q.end_reading)
    /\ flash' = "Bill created"
    /\ reqs' = [reqs EXCEPT ![r] = DoneReq]
    /\ UNCHANGED <<bill_seq, ops, backend, session, users, last>>

\* The next statement of the request (the INSERT, the UPDATE or the commit)
\* raises: the handler is left, close_db closes the connection without a
\* commit and the database rolls the open transaction back.  The sqlite
\* id counter is part of the transaction, a postgres sequence is not.
ReqFail(r) ==
    /\ reqs[r].pc \in {"computed", "inserted", "updated"}
    /\ bill_seq' = IF backend = "sqlite" /\ HoldsWriteLock(r) THEN reqs[r].bill_id - 1
                   ELSE bill_seq
    /\ reqs' = [reqs EXCEPT ![r] = DoneReq]
    /\ UNCHANGED <<tenants, bills, flash, ops, backend, session, users, last>>

\* ------------------------------------------------------------------ auth
\* the path of each endpoint (ids left out)
Route(endpoint) ==
    CASE endpoint = "auth_init" -> "/auth/init"
      [] endpoint = "login" -> "/login"
      [] endpoint = "logout" -> "/logout"
      [] endpoint = "health" -> "/health"
      [] endpoint = "dashboard" -> "/"
      [] endpoint = "tenants_list" -> "/tenants"
      [] endpoint = "new_tenant" -> "/tenant/new"
      [] endpoint = "edit_tenant" -> "/tenant/edit"
      [] endpoint = "new_reading" -> "/reading/new"
      [] endpoint = "bills_list" -> "/bills"
      [] endpoint = "reports" -> "/reports"
      [] endpoint = "export_csv" -> "/reports/export"
      [] endpoint = "mark_paid" -> "/bill/paid"
      [] endpoint = "download_receipt" -> "/bill/receipt"

OpenEndpoints == {"login", "auth_init", "static", "health"}

OpenPaths == {"/login", "/auth/init", "/health"}

\* variant: public receipts
RequireLoginPublicReceipt(endpoint) ==
    /\ endpoint \notin OpenEndpoints
    /\ endpoint # "download_receipt"
    /\ session.user_id = 0
    /\ Route(endpoint) \notin OpenPaths

\* before_request: TRUE when the request is answered with the redirect to
\* login and its view is not run
RequireLogin(endpoint) ==
    /\ endpoint \notin OpenEndpoints
    /\ session.user_id = 0
    /\ Route(endpoint) \notin OpenPaths

\* one request: the before_request function, then the view of the endpoint
Dispatch(endpoint, view) ==
    IF RequireLogin(endpoint)
    THEN /\ Handle
         /\ last' = [endpoint |-> endpoint, by |-> "require_login"]
         /\ UNCHANGED <<tenants, bills, bill_seq, reqs, flash, backend, session, users>>
    ELSE /\ view
         /\ last' = [endpoint |-> endpoint, by |-> "view"]

\* POST /auth/init
AuthInit(usernameF, passwordF) ==
    LET username == Strip(usernameF)
        password == Strip(passwordF)
    IN  /\ Handle
        /\ IF users # {}
           THEN UNCHANGED <<users, flash>>
           ELSE IF username = <<>> \/ password = <<>>
                THEN /\ flash' = "Username and password are required."
                     /\ UNCHANGED users
                ELSE /\ users' = users \cup
                            {[id |-> 1, username |-> username,
                              password_hash |-> GeneratePasswordHash(password)]}
                     /\ flash' = "Admin user created. Please login."
        /\ UNCHANGED <<tenants, bills, bill_seq, reqs, backend, session>>

\* POST /login
Login(usernameF, passwordF) ==
    LET username == Strip(usernameF)
        password == passwordF
        rows == {u \in users : u.username = username}
    IN  /\ Handle
        /\ IF \E row \in rows : CheckPasswordHash(row.password_hash, password)
           THEN /\ \E row \in rows :
                      session' = [user_id |-> row.id, username |-> row.username]
                /\ flash' = "Welcome back!"
           ELSE /\ flash' = "Invalid username or password."
                /\ UNCHANGED session
        /\ UNCHANGED <<tenants, bills, bill_seq, reqs, backend, users>>

\* GET /logout
Logout ==
    /\ Handle
    /\ session' = NoSession
    /\ flash' = "You have been logged out."
    /\ UNCHANGED <<tenants, bills, bill_seq, reqs, backend, users>>

\* GET /health
Health ==
    /\ Handle
    /\ UNCHANGED <<tenants, bills, bill_seq, reqs, flash, backend, session, users>>

\* GET of a page that only reads: dashboard, tenants_list, bills_list,
\* reports, export_csv
ReadPage ==
    /\ Handle
    /\ UNCHANGED <<tenants, bills, bill_seq, reqs, flash, backend, session, users>>

\* GET /bill/<bill_id>/receipt
DownloadReceipt(bill_id) ==
    /\ Handle
    /\ IF \E b \in bills : b.id = bill_id /\ b.tenant_id \in 1..Len(tenants)
       THEN UNCHANGED flash
       ELSE flash' = "Bill not found"
    /\ UNCHANGED <<tenants, bills, bill_seq, reqs, backend, session, users>>

\* ------------------------------------------------------------------ Spec
DoNewTenant ==
    \E n \in NameInputs, ro \in RoomInputs, re \in RentInputs,
       ra \in RateInputs, rd \in ReadingInputs :
       Dispatch("new_tenant", NewTenant(n, ro, re, ra, rd))

DoEditTenant ==
    \E t \in 1..(MaxTenants + 1), n \in NameInputs, ro \in RoomInputs, re \in RentInputs,
       ra \in RateInputs, rd \in ReadingInputs :
       Dispatch("edit_tenant", EditTenant(t, n, ro, re, ra, rd))

DoNewReading ==
    \E t \in 1..(MaxTenants + 1), e \in ReadingInputs, p \in Periods :
       Dispatch("new_reading", NewReading(t, e, p[1], p[2]))

DoMarkPaid == \E b \in 1..(MaxBills + 1) : Dispatch("mark_paid", MarkPaid(b))

Next == DoNewTenant \/ DoEditTenant \/ DoNewReading \/ DoMarkPaid

Spec == Init /\ [][Next]_vars

\* ------------------------------------------------------------- SpecAuth
\* The same requests from a client that starts without a session, with
\* the requests of auth_init, login and logout and the pages that only
\* read.
ReadEndpoints == {"dashboard", "tenants_list", "bills_list", "reports", "export_csv"}

LoggedOutInit ==
    /\ tenants \in {<<>>, <<StoredTenant>>}
    /\ bills = {}
    /\ bill_seq = 0
    /\ reqs = [r \in ReqIds |-> IdleReq]
    /\ flash = "none"
    /\ ops = 0
    /\ backend = "sqlite"
    /\ session = NoSession
    /\ users \in {{}, {AdminUser}}
    /\ last = [endpoint |-> "none", by |-> "none"]

DoAuthInit ==
    \E u \in UserInputs, pw \in PassInputs : Dispatch("auth_init", AuthInit(u, pw))

DoLogin == \E u \in UserInputs, pw \in PassInputs : Dispatch("login", Login(u, pw))

DoLogout == Dispatch("logout", Logout)

DoHealth == Dispatch("health", Health)

DoReadPage == \E e \in ReadEndpoints : Dispatch(e, ReadPage)

DoDownloadReceipt ==
    \E b \in 1..(MaxBills + 1) : Dispatch("download_receipt", DownloadReceipt(b))

AuthNext ==
    \/ DoAuthInit \/ DoLogin \/ DoLogout \/ DoHealth \/ DoReadPage \/ DoDownloadReceipt
    \/ DoNewTenant \/ DoEditTenant \/ DoNewReading \/ DoMarkPaid

SpecAuth == LoggedOutInit /\ [][AuthNext]_vars

\* ------------------------------------------------------------- SpecConc
\* Requests to new_reading in flight at the same time, against a store
\* that already holds tenants (rows that new_tenant accepts).
ConcInit ==
    /\ tenants = [t \in 1..ConcTenants |-> StoredTenant]
    /\ bills = {}
    /\ bill_seq = 0
    /\ reqs = [r \in ReqIds |-> IdleReq]
    /\ flash = "none"
    /\ ops = 0
    /\ backend \in {"sqlite", "postgres"}
    /\ session = [user_id |-> AdminUser.id, username |-> AdminUser.username]
    /\ users = {AdminUser}
    /\ last = [endpoint |-> "none", by |-> "none"]

DoReqStart ==
    \E r \in ReqIds, t \in 1..(ConcTenants + 1), e \in ReadingInputs, p \in ConcPeriods :
       ReqStart(r, t, e, p[1], p[2])

DoReqInsert == \E r \in ReqIds : ReqInsert(r)

DoReqUpdate == \E r \in ReqIds : ReqUpdate(r)

DoReqCommit == \E r \in ReqIds : ReqCommit(r)

DoReqFail == \E r \in ReqIds : ReqFail(r)

ConcNext == DoReqStart \/ DoReqInsert \/ DoReqUpdate \/ DoReqCommit \/ DoReqFail

SpecConc == ConcInit /\ [][ConcNext]_vars
\* =============================================================== properties
Abs(n) == IF n < 0 THEN -n ELSE n

\* the bills of tenant t in table tbl
BillsOfIn(tbl, t) == {b \in tbl : b.tenant_id = t}

\* the most recently generated bill of a non-empty set of bills
MostRecent(bs) == CHOOSE b \in bs : \A c \in bs : c.id <= b.id

\* what new_reading flashes for a tenant that exists
NewReadingAnswers == {"Bill created", "End reading cannot be less than last reading."}

\* C1: a new_reading for an existing tenant T with end_reading E >=
\* T.last_reading adds exactly one bill, with a new id, start_reading = the
\* cursor before the call, end_reading = E, units = E - start_reading,
\* light_bill = units * rate_per_unit rounded to the nearest paisa, total =
\* monthly_rent + light_bill and paid = 0, and sets T.last_reading to E,
\* leaving every other tenant field and every other tenant as it was.
C1_GenerateBill ==
    [][flash' \in NewReadingAnswers =>
       \A t \in TenantIds, e \in ReadingInputs, p \in Periods :
         (NewReading(t, e, p[1], p[2]) /\ e[1] >= tenants[t].last_reading) =>
            \E b \in bills' :
               /\ b.id \notin BillIds
               /\ bills' = bills \cup {b}
               /\ b.tenant_id = t /\ b.month = p[1] /\ b.year = p[2]
               /\ b.start_reading = tenants[t].last_reading
               /\ b.end_reading = e[1]
               /\ b.units = e[1] - tenants[t].last_reading
               /\ 2 * Abs(b.light_bill * RateDenom
                          - b.units * tenants[t].rate_per_unit * Paise) <= RateDenom
               /\ b.total = tenants[t].monthly_rent * Paise + b.light_bill
               /\ b.paid = 0
               /\ tenants' = [tenants EXCEPT ![t].last_reading = e[1]]]_vars

\* a bill of one unit at 0.0625 per unit (6.25 paise, rounded to 6) was just
\* created and the cursor stands at its end_reading
C1_Witness ==
    /\ flash = "Bill created"
    /\ \E b \in bills :
          /\ b.units = 1 /\ b.light_bill = 6 /\ b.total = 2 * Paise + 6
          /\ b.id = bill_seq
          /\ tenants[b.tenant_id].last_reading = b.end_reading

\* C2: a new_reading for an existing tenant with end_reading E <
\* T.last_reading is rejected with the invalid-reading message and changes
\* neither the tenants nor the bills.
C2_InvalidReading ==
    [][flash' \in NewReadingAnswers =>
       \A t \in TenantIds, e \in ReadingInputs, p \in Periods :
         (NewReading(t, e, p[1], p[2]) /\ e[1] < tenants[t].last_reading) =>
            /\ flash' = "End reading cannot be less than last reading."
            /\ bills' = bills
            /\ bill_seq' = bill_seq
            /\ tenants' = tenants]_vars

\* a reading of 1 has just been rejected for a tenant whose cursor a bill had
\* advanced to 3
C2_Witness ==
    /\ flash = "End reading cannot be less than last reading."
    /\ \E b \in bills : tenants[b.tenant_id].last_reading = b.end_reading /\ b.end_reading = 3

\* C3 (as stated): after every step each tenant with a bill has last_reading
\* = the end_reading of its most recent bill, and a tenant without a bill
\* keeps the last_reading it was created with.
C3_CursorIsLastBill ==
    [][\A t \in TenantIds :
         LET bs == BillsOfIn(bills', t) IN
         IF bs # {} THEN tenants'[t].last_reading = MostRecent(bs).end_reading
         ELSE tenants'[t].last_reading = tenants[t].last_reading]_vars

\* C3 (amended): the last_reading of an existing tenant changes only in a
\* new_reading for it, which sets it to the end_reading of the bill just
\* created (from then on the tenant's most recent bill), and in an
\* edit_tenant of it, which replaces it by the reading supplied; so it equals
\* the end_reading of the most recent bill, or the initial reading, until an
\* edit_tenant replaces it.
C3_CursorWrites ==
    [][\A t \in TenantIds :
         LET newb == {b \in BillsOfIn(bills', t) : b.id \notin BillIds} IN
         \/ /\ newb # {}
            /\ MostRecent(BillsOfIn(bills', t)) \in newb
            /\ tenants'[t].last_reading = MostRecent(BillsOfIn(bills', t)).end_reading
         \/ /\ flash' = "Tenant updated."
            /\ \A u \in TenantIds \ {t} : tenants'[u] = tenants[u]
         \/ /\ newb = {}
            /\ tenants'[t].last_reading = tenants[t].last_reading]_vars

\* an edit has just moved the cursor of a tenant away from the end_reading of
\* its most recent bill
C3_Witness ==
    /\ flash = "Tenant updated."
    /\ \E t \in TenantIds :
          /\ BillsOfIn(bills, t) # {}
          /\ tenants[t].last_reading # MostRecent(BillsOfIn(bills, t)).end_reading
\* C6: mark_paid of an existing bill, paid or not, answers "Marked as paid."
\* and leaves the store as it was except that this bill has paid = 1; applied
\* to a bill that is already paid (a second application) it changes nothing.
C6_MarkPaidIdempotent ==
    [][flash' = "Marked as paid." =>
       \A id \in BillIds :
          MarkPaid(id) =>
             /\ bills' = (bills \ {BillOf(id)}) \cup {[BillOf(id) EXCEPT !.paid = 1]}
             /\ tenants' = tenants
             /\ bill_seq' = bill_seq
             /\ BillOf(id).paid = 1 => bills' = bills]_vars

\* mark_paid has just marked a bill, and the budget leaves room for the
\* next request, a second mark_paid of the same bill among them
C6_Witness ==
    /\ flash = "Marked as paid."
    /\ ops < MaxOps
    /\ \E b \in bills : b.paid = 1 /\ b.units = 3

\* C7: a bill enters the table with paid = 0, and a bill that has paid = 1
\* has paid = 1 after every step.
C7_PaidOneWay ==
    [][/\ \A b \in bills : b.paid = 1 => \E c \in bills' : c.id = b.id /\ c.paid = 1
       /\ \A c \in bills' : c.id \notin BillIds => c.paid = 0]_vars

\* a paid bill is still paid after a later request that was not a mark_paid
C7_Witness ==
    /\ flash \notin {"Marked as paid.", "none"}
    /\ \E b \in bills : b.paid = 1

\* C8: for every month/year filter the report has outstanding = grand_total
\* - received and received <= grand_total, grand_total being the sum of total
\* over the filtered bills and received the sum over the paid ones.
C8_Aggregation ==
    \A mF \in MonthFilters, yF \in YearFilters :
       LET r == Report(mF, yF) IN
       /\ r.outstanding = r.grand_total - r.received
       /\ r.received <= r.grand_total

\* the rows the filter selects
Selected(mF, yF) ==
    {b \in bills : (mF = <<>> \/ b.month = mF[1]) /\ (yF = <<>> \/ b.year = yF[1])}

\* s lists exactly the rows of sel, by year descending, then month
\* descending, then id descending
ListsInOrder(s, sel) ==
    /\ Len(s) = Cardinality(sel)
    /\ {s[i] : i \in 1..Len(s)} = sel
    /\ \A i, j \in 1..Len(s) : i < j =>
          \/ s[i].year > s[j].year
          \/ s[i].year = s[j].year /\ s[i].month > s[j].month
          \/ s[i].year = s[j].year /\ s[i].month = s[j].month /\ s[i].id > s[j].id

\* C9: for every filter, the query of bills_list, of reports and of
\* export_csv admits exactly one result, which lists exactly the bills that
\* match the filter by year descending, month descending, id descending.
C9_ListOrder ==
    \A mF \in MonthFilters, yF \in YearFilters :
       \A res \in {BillsList(mF, yF), ReportRows(mF, yF), ExportRows(mF, yF)} :
          /\ Cardinality(res) = 1
          /\ \A s \in res : ListsInOrder(s, Selected(mF, yF))

\* two bills of the same month and year are listed, and a bill of another
\* period with them
C9_Witness ==
    \E a, b \in bills :
       /\ a.id # b.id /\ a.month = b.month /\ a.year = b.year
       /\ a.month = 1 /\ a.year = 2025

\* what new_tenant flashes
NewTenantAnswers == {"Tenant added.", "Name and monthly rent are required."}

\* C10: new_tenant with a name that is empty or all spaces, or with a
\* monthly_rent <= 0, leaves the tenants and the bills as they were;
\* otherwise it adds exactly one tenant, under an id no tenant had, with
\* last_reading = the initial reading supplied, and changes no other row.
C10_CreateTenant ==
    [][flash' \in NewTenantAnswers =>
       \A n \in NameInputs, ro \in RoomInputs, re \in RentInputs,
          ra \in RateInputs, rd \in ReadingInputs :
          NewTenant(n, ro, re, ra, rd) =>
             /\ bills' = bills
             /\ IF (\A i \in 1..Len(n) : n[i] = " ") \/ (re = <<>> \/ re[1] <= 0)
                THEN /\ tenants' = tenants
                     /\ flash' = "Name and monthly rent are required."
                ELSE /\ Len(tenants') = Len(tenants) + 1
                     /\ Len(tenants') \notin TenantIds
                     /\ \A t \in TenantIds : tenants'[t] = tenants[t]
                     /\ tenants'[Len(tenants')].last_reading = rd[1]]_vars

\* a tenant was added under id 1 and a later new_tenant has been rejected
C10_Witness ==
    /\ flash = "Name and monthly rent are required."
    /\ Len(tenants) = 1
    /\ tenants[1].last_reading = 3
\* the bills bs can be put in a row in which each bill starts at the reading
\* at which the bill before it ends
Chained(bs) ==
    \E s \in [1..Cardinality(bs) -> bs] :
       /\ \A i, j \in 1..Cardinality(bs) : i # j => s[i] # s[j]
       /\ \A i \in 1..(Cardinality(bs) - 1) : s[i + 1].start_reading = s[i].end_reading

\* C4: no two bills of one tenant come from the same read of the cursor:
\* the committed bills of a tenant follow one another, the later-committed
\* bill starting at the end_reading of the earlier-committed one.
C4_Serialized == \A t \in TenantIds : Chained(BillsOfIn(bills, t))

\* C5: every step either leaves the committed tenants and bills as they
\* were or commits exactly one new bill together with the cursor update to
\* its end_reading; a request that fails at its INSERT, its UPDATE or its
\* commit leaves both tables as they were.
C5_AllOrNothing ==
    [][/\ \/ bills' = bills /\ tenants' = tenants
          \/ \E b \in bills' :
                /\ b.id \notin BillIds
                /\ bills' = bills \cup {b}
                /\ tenants' = [tenants EXCEPT ![b.tenant_id].last_reading = b.end_reading]
       /\ \A r \in ReqIds : ReqFail(r) => bills' = bills /\ tenants' = tenants]_vars

\* on postgres an id of the bills sequence was used up by a request that is
\* no longer in flight, and neither its bill nor its cursor is in the store
C5_Witness ==
    /\ backend = "postgres"
    /\ bill_seq = 1
    /\ bills = {}
    /\ \A r \in ReqIds : reqs[r].pc \in {"idle", "done"}
    /\ \A t \in TenantIds : tenants[t] = StoredTenant
\* C11: a request on an id that does not resolve is answered with a
\* rejection and changes nothing: new_reading for a tenant_id of no tenant,
\* and mark_paid for a bill_id of no bill, which must not answer
\* "Marked as paid.".
C11_NotFound ==
    [][/\ \A t \in 1..(MaxTenants + 1), e \in ReadingInputs, p \in Periods :
             (t \notin TenantIds /\ NewReading(t, e, p[1], p[2])) =>
                /\ flash' = "Tenant not found"
                /\ tenants' = tenants /\ bills' = bills
       /\ \A id \in 1..(MaxBills + 1) :
             (id \notin BillIds /\ MarkPaid(id)) =>
                /\ flash' # "Marked as paid."
                /\ tenants' = tenants /\ bills' = bills]_vars
\* C13: every stored tenant has a non-empty name and a positive
\* monthly_rent, whatever create_tenant and update_tenant requests came
\* before (an update_tenant with an empty name or a non-positive rent is
\* rejected and stores nothing).
C13_TenantValid ==
    \A t \in TenantIds :
        /\ tenants[t].name # <<>>
        /\ tenants[t].monthly_rent > 0
\* C17: every stored bill has end_reading >= start_reading and
\* units = end_reading - start_reading >= 0, and its tenant_id is the id of
\* a stored tenant.
C17_BillReadings ==
    \A b \in bills :
        /\ b.end_reading >= b.start_reading
        /\ b.units = b.end_reading - b.start_reading
        /\ b.units >= 0
        /\ b.tenant_id \in TenantIds

\* a bill generated from a cursor already advanced, next to a rejected
\* generation that stored nothing
C17_Witness ==
    /\ \E b \in bills : b.start_reading > 0 /\ b.units > 0
    /\ flash = "End reading cannot be less than last reading."
\* C14: no step deletes a tenant or a bill, and no step changes a field of
\* a bill other than paid: every bill of the state before is in the state
\* after with the same id, tenant_id, month, year, start_reading,
\* end_reading, units, light_bill and total, and the sets of tenant ids and
\* of bill ids only grow.
C14_BillsFrozen ==
    [][/\ \A b \in bills : \E c \in bills' : c = [b EXCEPT !.paid = c.paid]
       /\ TenantIds \subseteq TenantIds'
       /\ BillIds \subseteq BillIds']_vars

\* two bills are stored and their owner has been edited after the second
C14_Witness ==
    /\ Cardinality(bills) = 2
    /\ flash = "Tenant updated."
    /\ \E b \in bills : tenants[b.tenant_id].last_reading # b.end_reading
\* C18: the unpaid listing of the dashboard is ordered by year descending,
\* month descending, id descending, and is the same on every call with the
\* same data: the query has one possible result and it is in that order.
C18_DashboardOrder ==
    /\ Cardinality(DashboardUnpaid) = 1
    /\ \A s \in DashboardUnpaid :
          \A i, j \in 1..Len(s) : i < j => BillsOrder(s[i], s[j])
\* C15: every commit of a new_reading request leaves the last_reading of
\* its tenant greater than or equal to what it was just before the commit,
\* whatever other requests for the tenant are in flight.
C15_CursorMonotone ==
    [][\A r \in ReqIds : ReqCommit(r) =>
          tenants'[reqs[r].tenant_id].last_reading >=
             tenants[reqs[r].tenant_id].last_reading]_vars
\* C16: a new_reading request never has to wait for a request of another
\* tenant: a request that has computed its bill can run its INSERT as soon
\* as no other request in flight is for the same tenant.
C16_NoWaiting ==
    \A r \in ReqIds :
        (/\ reqs[r].pc = "computed"
         /\ bill_seq < MaxBills
         /\ \A o \in ReqIds \ {r} :
               reqs[o].pc \in {"computed", "inserted", "updated"} =>
                  reqs[o].tenant_id # reqs[r].tenant_id)
        => ENABLED ReqInsert(r)
\* C12: while the session holds no user, a request to any endpoint other
\* than login, health and auth_init (new_tenant, edit_tenant, new_reading,
\* mark_paid, bills_list, reports, export_csv and download_receipt among
\* them) is answered by the redirect to login, its view is not run, and
\* tenants and bills are left as they were.
C12_LoginGate ==
    [][(/\ session.user_id = 0
        /\ ops' # ops
        /\ last'.endpoint \notin {"login", "health", "auth_init"})
       => /\ last'.by = "require_login"
          /\ tenants' = tenants /\ bills' = bills /\ bill_seq' = bill_seq
          /\ flash' = flash]_vars

\* after a login and a logout, a new_reading request for a stored tenant
\* has been answered by the redirect
C12_Witness ==
    /\ session.user_id = 0
    /\ flash = "You have been logged out."
    /\ last = [endpoint |-> "new_reading", by |-> "require_login"]
    /\ tenants # <<>>
====
